---- MODULE Spec2Model ----
(***************************************************************************)
(* Model of server/aesdsocket.c: the accept loop (main), the per-client    *)
(* threads (handle_client, send_file_to_client), the SIGEV_THREAD timer    *)
(* callback (timer_handler), the SIGINT/SIGTERM handler (signal_handler)   *)
(* and the shutdown sequence (cleanup_and_exit), over the data file        *)
(* /var/tmp/aesdsocketdata guarded by file_mutex.                          *)
(*                                                                         *)
(* Bytes are integers.  A thread is identified by a number: the client     *)
(* thread of the c-th accepted connection is c, the thread of the i-th     *)
(* timer expiration is MaxConn + i.  file_mutex holds the owner, 0 when    *)
(* unlocked.  One action is one step of one thread between two points at   *)
(* which it touches state another thread can see.                          *)
(***************************************************************************)
EXTENDS Integers, Sequences, FiniteSets, TLC

\* ------------------------------------------------------------------ bounds
\* Bytes that enter the server in one run: what the clients deliver and what
\* the timer's expirations format.
MaxInput == 4
\* Appends that fail in one run (fopen returns NULL, or the write stops short).
MaxFaults == 1
\* The receive and read chunk size (#define BUFFER_SIZE 1024), scaled down.
BUFFER_SIZE == 3

\* '\n'
NL == 10

\* What a client sends over its connection: one record; one record and an
\* unterminated tail; two records, the second an empty line; one record
\* that is longer than a receive chunk.
Unterminated == <<122>>
LongRecord == [i \in 1..BUFFER_SIZE |-> 97] \o <<NL>>
Scripts == { <<97, NL>>, <<97, NL>> \o Unterminated, <<97, NL, NL>>, LongRecord }

\* strftime(timestamp, ..., "timestamp:%a, %d %b %Y %H:%M:%S %z\n", tm_info):
\* a text without a newline, then one newline.
Timestamp == <<116, NL>>

\* Connections accepted, and timer expirations, in one run: each brings at
\* least the bytes of one shortest record.
MaxConn == MaxInput \div 2
MaxTicks == MaxInput \div Len(Timestamp)

Workers == 1..MaxConn
Timers == (MaxConn + 1)..(MaxConn + MaxTicks)
Threads == Workers \cup Timers
\* The thread that runs main.
MainThread == MaxConn + MaxTicks + 1

\* --------------------------------------------------------------- helpers
Min(a, b) == IF a < b THEN a ELSE b

IsPrefix(s, t) == Len(s) <= Len(t) /\ SubSeq(t, 1, Len(s)) = s

Drop(s, n) == SubSeq(s, n + 1, Len(s))

Bytes(s) == { s[i] : i \in 1..Len(s) }

\* memchr(buffer, '\n', buffer_used) != NULL
HasNewline(buf) == \E i \in 1..Len(buf) : buf[i] = NL

\* newline_pos - buffer, counted from 0
NewlineOffset(buf) == (CHOOSE i \in 1..Len(buf) :
                          buf[i] = NL /\ \A j \in 1..(i - 1) : buf[j] # NL) - 1

\* size_t packet_size = newline_pos - buffer + 1;
PacketSizeAllUsed(buf) == Len(buf)
PacketSize(buf) == NewlineOffset(buf) + 1

\* fopen(DATA_FILE, "a") ... fwrite ... fclose(fp): the file's contents after
\* one write(2) has put `bytes` at its end.
FileTruncWrite(contents, bytes) == bytes
FileAppend(contents, bytes) == contents \o bytes

\* fread(buffer, 1, sizeof(buffer), fp) at file offset pos
FreadOnce(contents, pos) ==
    IF pos = 0 THEN SubSeq(contents, 1, Min(Len(contents), BUFFER_SIZE)) ELSE <<>>
Fread(contents, pos) == SubSeq(contents, pos + 1, Min(Len(contents), pos + BUFFER_SIZE))

\* buffer_used -= packet_size; memmove(buffer, buffer + packet_size, buffer_used)
RemovePacketKeepNewline(buf, n) == Drop(buf, n - 1)
RemovePacket(buf, n) == Drop(buf, n)

VARIABLES
    proc,             \* "running", "exited" (main returned), "killed" (SIGPIPE)
    mpc,              \* where main is
    ri,               \* main's position in a walk of thread_list (1-based)
    server_fd,        \* 3 while the listening socket is open, -1 after close
    naccepted,        \* connections accepted so far
    thread_list,      \* the SLIST, head first: a sequence of thread numbers
    thread_list_mutex, \* owner of thread_list_mutex, 0 when unlocked
    caught_signal,    \* 0 or 1
    listen_shut,      \* shutdown(server_fd, SHUT_RDWR) was called
    sig_logged,       \* syslog was called from signal_handler
    client_fd,        \* per connection: "none", "open", "shut", "closed"
    script,           \* per connection: the bytes the client sends
    nrecv,            \* per connection: how many of them recv has returned
    pc,               \* where each client thread is
    thread_complete,  \* thread_data->thread_complete of each client thread
    buffer,           \* handle_client's buffer[0 .. buffer_used)
    buffer_size,      \* handle_client's buffer_size
    rpos,             \* send_file_to_client: the read offset of fp
    chunk,            \* send_file_to_client: buffer[0 .. bytes_read)
    total_sent,       \* send_file_to_client: total_sent
    sb,               \* per connection: bytes delivered by the current or last stream-back
    timer_armed,      \* timerid is armed (until timer_delete)
    nticks,           \* timer expirations so far
    tpc,              \* where each timer_handler thread is
    file_exists,      \* DATA_FILE exists
    log,              \* DATA_FILE's contents
    wrote,            \* per thread: bytes its open append has put in the file
    file_mutex,       \* owner of file_mutex, 0 when unlocked
    mutex_destroyed,  \* pthread_mutex_destroy(&file_mutex) was called
    faults,           \* appends that failed so far
    input_left,       \* bytes that may still enter the server in this run
    \* history, for stating properties only (no action's guard reads it):
    hist,             \* the appends in completion order: [by, rec, n]
    sb_ok,            \* the thread's last send_file_to_client returned 0
    rx,               \* buffer[0 .. buffer_used) right after the last recv was copied in
    rx_base,          \* Len(hist) at that moment
    last_sb,          \* what the latest stream-back that returned 0 delivered
    sb_upto           \* Len(hist) when the current or last stream-back took the mutex

mainVars == <<mpc, ri, server_fd, naccepted, thread_list, thread_list_mutex>>
sigVars == <<caught_signal, listen_shut, sig_logged>>
connVars == <<client_fd, script, nrecv>>
bufVars == <<buffer, buffer_size>>
streamVars == <<rpos, chunk, total_sent, sb>>
timerVars == <<timer_armed, nticks, tpc>>
fileVars == <<file_exists, log, wrote>>
mutexVars == <<file_mutex, mutex_destroyed>>
rxVars == <<rx, rx_base>>
sbVars == <<sb_ok, last_sb, sb_upto>>
workerVars == <<pc, thread_complete, bufVars, streamVars>>
vars == <<proc, mainVars, sigVars, connVars, pc, thread_complete, bufVars, streamVars,
          timerVars, fileVars, mutexVars, faults, input_left, hist, rxVars, sbVars>>

Init ==
    /\ proc = "running"
    /\ mpc = "listen"
    /\ ri = 1
    /\ server_fd = 3
    /\ naccepted = 0
    /\ thread_list = <<>>
    /\ thread_list_mutex = 0
    /\ caught_signal = 0
    /\ listen_shut = FALSE
    /\ sig_logged = FALSE
    /\ client_fd = [w \in Workers |-> "none"]
    /\ script = [w \in Workers |-> <<>>]
    /\ nrecv = [w \in Workers |-> 0]
    /\ pc = [w \in Workers |-> "none"]
    /\ thread_complete = [w \in Workers |-> FALSE]
    /\ buffer = [w \in Workers |-> <<>>]
    /\ buffer_size = [w \in Workers |-> 0]
    /\ rpos = [w \in Workers |-> 0]
    /\ chunk = [w \in Workers |-> <<>>]
    /\ total_sent = [w \in Workers |-> 0]
    /\ sb = [w \in Workers |-> <<>>]
    /\ timer_armed = TRUE
    /\ nticks = 0
    /\ tpc = [t \in Timers |-> "none"]
    /\ file_exists = FALSE
    /\ log = <<>>
    /\ wrote = [t \in Threads |-> 0]
    /\ file_mutex = 0
    /\ mutex_destroyed = FALSE
    /\ faults = 0
    /\ input_left = MaxInput
    /\ hist = <<>>
    /\ sb_ok = [w \in Workers |-> FALSE]
    /\ rx = [w \in Workers |-> <<>>]
    /\ rx_base = [w \in Workers |-> 0]
    /\ last_sb = <<>>
    /\ sb_upto = [w \in Workers |-> 0]

Running == proc = "running"

\* A library call fails (while the run's failures are not used up), or not.
Fails == faults < MaxFaults /\ faults' = faults + 1
NoFail == faults' = faults

\* pthread_mutex_lock(&file_mutex) returns to thread t holding the mutex.
LockIgnoresOwner(t) == TRUE
LockGranted(t) == file_mutex = 0

\* An append by thread t of the record rec is over with n of its bytes in the
\* file: it goes into the history.
AppendEndsAt(t, rec, n) ==
    /\ hist' = Append(hist, [by |-> t, rec |-> rec, n |-> n])
    /\ wrote' = [wrote EXCEPT ![t] = 0]

AppendEnds(t, rec) == AppendEndsAt(t, rec, wrote[t])

\* pthread_join(thread_item->thread_id, NULL) returns: the thread has returned.
JoinReturnsAtOnce(w) == TRUE
JoinReturns(w) == pc[w] = "done"

\* The thread leaves handle_client's loops: free(buffer), and on to
\* thread_data->thread_complete = true.
Leave(w) ==
    /\ pc' = [pc EXCEPT ![w] = "exit"]
    /\ buffer' = [buffer EXCEPT ![w] = <<>>]
    /\ buffer_size' = [buffer_size EXCEPT ![w] = 0]
    /\ rx' = [rx EXCEPT ![w] = <<>>]
    /\ rx_base' = [rx_base EXCEPT ![w] = 0]

\* send_file_to_client returns: its locals are gone.
StreamReturns(w) ==
    /\ rpos' = [rpos EXCEPT ![w] = 0]
    /\ chunk' = [chunk EXCEPT ![w] = <<>>]
    /\ total_sent' = [total_sent EXCEPT ![w] = 0]

\* ------------------------------------------------------- handle_client
\* while (!caught_signal)
W_Check(w) ==
    /\ Running /\ pc[w] = "loop"
    /\ IF caught_signal = 1
       THEN Leave(w)
       ELSE pc' = [pc EXCEPT ![w] = "recv"] /\ UNCHANGED <<bufVars, rxVars>>
    /\ sb' = [sb EXCEPT ![w] = <<>>]
    /\ sb_ok' = [sb_ok EXCEPT ![w] = FALSE]
    /\ sb_upto' = [sb_upto EXCEPT ![w] = 0]
    /\ UNCHANGED <<proc, mainVars, sigVars, connVars, thread_complete, rpos, chunk,
                   total_sent, timerVars, fileVars, mutexVars, faults, input_left,
                   hist, last_sb>>

\* "Expand buffer if needed": buffer_size after the test
\* buffer_used + bytes_received > buffer_size and the realloc.
GrownSizeIgnoresUsed(size, used, n) ==
    IF n > size THEN size + BUFFER_SIZE ELSE size
GrownSize(size, used, n) ==
    IF used + n > size THEN size + BUFFER_SIZE ELSE size

\* recv returns n > 0 bytes; the buffer grows by BUFFER_SIZE when they do not
\* fit; they are copied in; the inner loop is entered when a newline is there.
W_RecvData(w) ==
    /\ Running /\ pc[w] = "recv"
    /\ \E n \in 1..Min(BUFFER_SIZE, Len(script[w]) - nrecv[w]) :
         LET newbuf == buffer[w] \o SubSeq(script[w], nrecv[w] + 1, nrecv[w] + n)
         IN  /\ nrecv' = [nrecv EXCEPT ![w] = nrecv[w] + n]
             /\ buffer' = [buffer EXCEPT ![w] = newbuf]
             /\ buffer_size' = [buffer_size EXCEPT ![w] =
                    GrownSize(buffer_size[w], Len(buffer[w]), n)]
             /\ rx' = [rx EXCEPT ![w] = newbuf]
             /\ rx_base' = [rx_base EXCEPT ![w] = Len(hist)]
             /\ pc' = [pc EXCEPT ![w] = IF HasNewline(newbuf) THEN "lock_a" ELSE "loop"]
    /\ UNCHANGED <<proc, mainVars, sigVars, client_fd, script, thread_complete,
                   streamVars, timerVars, fileVars, mutexVars, faults, input_left,
                   hist, sbVars>>

\* recv returns n > 0 bytes that do not fit and realloc returns NULL: break.
W_RecvNoMem(w) ==
    /\ Running /\ pc[w] = "recv"
    /\ \E n \in 1..Min(BUFFER_SIZE, Len(script[w]) - nrecv[w]) :
         /\ Len(buffer[w]) + n > buffer_size[w]
         /\ nrecv' = [nrecv EXCEPT ![w] = nrecv[w] + n]
    /\ Leave(w)
    /\ UNCHANGED <<proc, mainVars, sigVars, client_fd, script, thread_complete,
                   streamVars, timerVars, fileVars, mutexVars, faults, input_left,
                   hist, sbVars>>

\* recv returns 0 (the peer closed, or the descriptor was shut down) or -1
\* (the peer reset the connection, EINTR, another failure): break.
W_RecvEnd(w) ==
    /\ Running /\ pc[w] = "recv"
    /\ Leave(w)
    /\ UNCHANGED <<proc, mainVars, sigVars, connVars, thread_complete, streamVars,
                   timerVars, fileVars, mutexVars, faults, input_left, hist, sbVars>>

\* pthread_mutex_lock(&file_mutex) before the append
W_LockA(w) ==
    /\ Running /\ pc[w] = "lock_a" /\ LockGranted(w)
    /\ file_mutex' = w
    /\ pc' = [pc EXCEPT ![w] = "append"]
    /\ UNCHANGED <<proc, mainVars, sigVars, connVars, thread_complete, bufVars,
                   streamVars, timerVars, fileVars, mutex_destroyed, faults,
                   input_left, hist, rxVars, sbVars>>

\* fp = fopen(DATA_FILE, "a"): the file is there, or NULL
W_Append(w) ==
    /\ Running /\ pc[w] = "append"
    /\ \/ /\ NoFail
          /\ file_exists' = TRUE
          /\ pc' = [pc EXCEPT ![w] = "write"]
          /\ UNCHANGED <<log, wrote, hist>>
       \/ /\ Fails
          /\ AppendEnds(w, SubSeq(buffer[w], 1, PacketSize(buffer[w])))
          /\ pc' = [pc EXCEPT ![w] = "unlock_a"]
          /\ UNCHANGED <<file_exists, log>>
    /\ UNCHANGED <<proc, mainVars, sigVars, connVars, thread_complete, bufVars,
                   streamVars, timerVars, mutexVars, input_left, rxVars, sbVars>>

\* fwrite(buffer, 1, packet_size, fp) and fclose(fp): the packet reaches the
\* file in one or more writes; after the last one the append is over.
W_Write(w) ==
    /\ Running /\ pc[w] = "write"
    /\ \E n \in 1..(PacketSize(buffer[w]) - wrote[w]) :
         /\ log' = FileAppend(log, SubSeq(buffer[w], wrote[w] + 1, wrote[w] + n))
         /\ IF wrote[w] + n < PacketSize(buffer[w])
            THEN /\ wrote' = [wrote EXCEPT ![w] = wrote[w] + n]
                 /\ UNCHANGED <<pc, hist>>
            ELSE /\ AppendEndsAt(w, SubSeq(buffer[w], 1, PacketSize(buffer[w])),
                                 wrote[w] + n)
                 /\ pc' = [pc EXCEPT ![w] = "unlock_a"]
    /\ UNCHANGED <<proc, mainVars, sigVars, connVars, thread_complete, bufVars,
                   streamVars, timerVars, file_exists, mutexVars, faults, input_left,
                   rxVars, sbVars>>

\* A write fails (fwrite returns less than packet_size, or fclose fails):
\* what was written stays in the file.
W_WriteFail(w) ==
    /\ Running /\ pc[w] = "write"
    /\ Fails
    /\ AppendEnds(w, SubSeq(buffer[w], 1, PacketSize(buffer[w])))
    /\ pc' = [pc EXCEPT ![w] = "unlock_a"]
    /\ UNCHANGED <<proc, mainVars, sigVars, connVars, thread_complete, bufVars,
                   streamVars, timerVars, file_exists, log, mutexVars, input_left,
                   rxVars, sbVars>>

\* pthread_mutex_unlock(&file_mutex); then send_file_to_client is called
W_UnlockA(w) ==
    /\ Running /\ pc[w] = "unlock_a"
    /\ file_mutex' = 0
    /\ pc' = [pc EXCEPT ![w] = "lock_r"]
    /\ sb' = [sb EXCEPT ![w] = <<>>]
    /\ sb_ok' = [sb_ok EXCEPT ![w] = FALSE]
    /\ sb_upto' = [sb_upto EXCEPT ![w] = 0]
    /\ UNCHANGED <<proc, mainVars, sigVars, connVars, thread_complete, bufVars, rpos,
                   chunk, total_sent, timerVars, fileVars, mutex_destroyed, faults,
                   input_left, hist, rxVars, last_sb>>

\* ------------------------------------------------- send_file_to_client
W_LockR(w) ==
    /\ Running /\ pc[w] = "lock_r" /\ LockGranted(w)
    /\ file_mutex' = w
    /\ pc' = [pc EXCEPT ![w] = "open_r"]
    /\ sb_upto' = [sb_upto EXCEPT ![w] = Len(hist)]
    /\ UNCHANGED <<proc, mainVars, sigVars, connVars, thread_complete, bufVars,
                   streamVars, timerVars, fileVars, mutex_destroyed, faults,
                   input_left, hist, rxVars, sb_ok, last_sb>>

\* The read at file offset pos: bytes_read = fread(buffer, 1, sizeof(buffer), fp);
\* 0 bytes end the loop.
ReadChunk(w, pos) ==
    /\ chunk' = [chunk EXCEPT ![w] = Fread(log, pos)]
    /\ rpos' = [rpos EXCEPT ![w] = pos + Len(Fread(log, pos))]
    /\ total_sent' = [total_sent EXCEPT ![w] = 0]
    /\ pc' = [pc EXCEPT ![w] = IF Fread(log, pos) = <<>> THEN "unlock_r" ELSE "send"]

\* fp = fopen(DATA_FILE, "r") and the first fread; on NULL: unlock,
\* return -1, and the caller leaves.
W_OpenR(w) ==
    /\ Running /\ pc[w] = "open_r"
    /\ \/ /\ file_exists
          /\ ReadChunk(w, 0)
          /\ UNCHANGED <<file_mutex, bufVars, rxVars>>
       \/ /\ file_mutex' = 0
          /\ Leave(w)
          /\ UNCHANGED <<rpos, chunk, total_sent>>
    /\ UNCHANGED <<proc, mainVars, sigVars, connVars, thread_complete, sb, timerVars,
                   fileVars, mutex_destroyed, faults, input_left, hist, sbVars>>

\* bytes_sent = send(client_socket, buffer + total_sent, bytes_read - total_sent, 0)
\* takes n >= 1 bytes; once the chunk is out, the next fread.
W_Send(w) ==
    /\ Running /\ pc[w] = "send" /\ client_fd[w] = "open"
    /\ \E n \in 1..(Len(chunk[w]) - total_sent[w]) :
         /\ sb' = [sb EXCEPT ![w] = sb[w] \o SubSeq(chunk[w], total_sent[w] + 1,
                                                     total_sent[w] + n)]
         /\ IF total_sent[w] + n < Len(chunk[w])
            THEN /\ total_sent' = [total_sent EXCEPT ![w] = total_sent[w] + n]
                 /\ UNCHANGED <<pc, rpos, chunk>>
            ELSE ReadChunk(w, rpos[w])
    /\ UNCHANGED <<proc, mainVars, sigVars, connVars, thread_complete, bufVars,
                   timerVars, fileVars, mutexVars, faults, input_left, hist, rxVars,
                   sbVars>>

\* send returns -1 (EPIPE on a descriptor that was shut down or whose peer is
\* gone, ECONNRESET, EINTR, another failure): fclose, unlock, return -1, and
\* the caller leaves.
W_SendFail(w) ==
    /\ Running /\ pc[w] = "send"
    /\ file_mutex' = 0
    /\ StreamReturns(w)
    /\ Leave(w)
    /\ UNCHANGED <<proc, mainVars, sigVars, connVars, thread_complete, sb, timerVars,
                   fileVars, mutex_destroyed, faults, input_left, hist, sbVars>>

\* send on a descriptor that was shut down for writing, or whose peer is
\* gone, also raises SIGPIPE (flags are 0): unless the process inherited
\* SIGPIPE as ignored, the default action ends it.
W_SendPipe(w) ==
    /\ Running /\ pc[w] = "send"
    /\ proc' = "killed"
    /\ UNCHANGED <<mainVars, sigVars, connVars, pc, thread_complete, bufVars,
                   streamVars, timerVars, fileVars, mutexVars, faults, input_left,
                   hist, rxVars, sbVars>>

\* fclose(fp); pthread_mutex_unlock(&file_mutex); return 0; then the caller
\* removes the packet from its buffer and looks for the next newline.
W_UnlockR(w) ==
    /\ Running /\ pc[w] = "unlock_r"
    /\ file_mutex' = 0
    /\ sb_ok' = [sb_ok EXCEPT ![w] = TRUE]
    /\ last_sb' = sb[w]
    /\ LET rest == RemovePacket(buffer[w], PacketSize(buffer[w]))
       IN  /\ buffer' = [buffer EXCEPT ![w] = rest]
           /\ pc' = [pc EXCEPT ![w] = IF HasNewline(rest) THEN "lock_a" ELSE "loop"]
    /\ StreamReturns(w)
    /\ UNCHANGED <<proc, mainVars, sigVars, connVars, thread_complete, buffer_size,
                   sb, timerVars, fileVars, mutex_destroyed, faults, input_left,
                   hist, rxVars, sb_upto>>

\* thread_data->thread_complete = true;
W_Complete(w) ==
    /\ Running /\ pc[w] = "exit"
    /\ thread_complete' = [thread_complete EXCEPT ![w] = TRUE]
    /\ pc' = [pc EXCEPT ![w] = "ret"]
    /\ sb' = [sb EXCEPT ![w] = <<>>]
    /\ sb_upto' = [sb_upto EXCEPT ![w] = 0]
    /\ UNCHANGED <<proc, mainVars, sigVars, connVars, bufVars, rpos, chunk,
                   total_sent, timerVars, fileVars, mutexVars, faults, input_left,
                   hist, rxVars, sb_ok, last_sb>>

\* return NULL;
W_Return(w) ==
    /\ Running /\ pc[w] = "ret"
    /\ pc' = [pc EXCEPT ![w] = "done"]
    /\ UNCHANGED <<proc, mainVars, sigVars, connVars, thread_complete, bufVars,
                   streamVars, timerVars, fileVars, mutexVars, faults, input_left,
                   hist, rxVars, sbVars>>

\* ------------------------------------------------------- timer_handler
\* The timer expires: a new thread starts timer_handler (SIGEV_THREAD) and
\* has the timestamp formatted.
Tick ==
    /\ Running /\ timer_armed /\ nticks < MaxTicks /\ input_left >= Len(Timestamp)
    /\ input_left' = input_left - Len(Timestamp)
    /\ nticks' = nticks + 1
    /\ tpc' = [tpc EXCEPT ![MaxConn + nticks + 1] = "lock"]
    /\ UNCHANGED <<proc, mainVars, sigVars, connVars, workerVars, timer_armed,
                   fileVars, mutexVars, faults, hist, rxVars, sbVars>>

\* pthread_mutex_lock(&file_mutex).  On a destroyed mutex the call is
\* undefined: it may lock as usual, or return EINVAL at once (the result is
\* not looked at, and the thread goes on without the mutex).
T_Lock(t) ==
    /\ Running /\ tpc[t] = "lock"
    /\ \/ /\ LockGranted(t)
          /\ file_mutex' = t
       \/ /\ mutex_destroyed
          /\ UNCHANGED file_mutex
    /\ tpc' = [tpc EXCEPT ![t] = "append"]
    /\ UNCHANGED <<proc, mainVars, sigVars, connVars, workerVars, timer_armed, nticks,
                   fileVars, mutex_destroyed, faults, input_left, hist, rxVars,
                   sbVars>>

\* fp = fopen(DATA_FILE, "a"): the file is there, or NULL
T_Append(t) ==
    /\ Running /\ tpc[t] = "append"
    /\ \/ /\ NoFail
          /\ file_exists' = TRUE
          /\ tpc' = [tpc EXCEPT ![t] = "write"]
          /\ UNCHANGED <<log, wrote, hist>>
       \/ /\ Fails
          /\ AppendEnds(t, Timestamp)
          /\ tpc' = [tpc EXCEPT ![t] = "unlock"]
          /\ UNCHANGED <<file_exists, log>>
    /\ UNCHANGED <<proc, mainVars, sigVars, connVars, workerVars, timer_armed, nticks,
                   mutexVars, input_left, rxVars, sbVars>>

\* fputs(timestamp, fp) and fclose(fp): the timestamp reaches the file in
\* one or more writes; after the last one the append is over.
T_Write(t) ==
    /\ Running /\ tpc[t] = "write"
    /\ \E n \in 1..(Len(Timestamp) - wrote[t]) :
         /\ log' = FileAppend(log, SubSeq(Timestamp, wrote[t] + 1, wrote[t] + n))
         /\ IF wrote[t] + n < Len(Timestamp)
            THEN /\ wrote' = [wrote EXCEPT ![t] = wrote[t] + n]
                 /\ UNCHANGED <<tpc, hist>>
            ELSE /\ AppendEndsAt(t, Timestamp, wrote[t] + n)
                 /\ tpc' = [tpc EXCEPT ![t] = "unlock"]
    /\ UNCHANGED <<proc, mainVars, sigVars, connVars, workerVars, timer_armed, nticks,
                   file_exists, mutexVars, faults, input_left, rxVars, sbVars>>

\* A write fails (fputs or fclose reports an error): what was written stays.
T_WriteFail(t) ==
    /\ Running /\ tpc[t] = "write"
    /\ Fails
    /\ AppendEnds(t, Timestamp)
    /\ tpc' = [tpc EXCEPT ![t] = "unlock"]
    /\ UNCHANGED <<proc, mainVars, sigVars, connVars, workerVars, timer_armed, nticks,
                   file_exists, log, mutexVars, input_left, rxVars, sbVars>>

\* pthread_mutex_unlock(&file_mutex); and the thread ends
T_Unlock(t) ==
    /\ Running /\ tpc[t] = "unlock"
    /\ file_mutex' = IF file_mutex = t THEN 0 ELSE file_mutex
    /\ tpc' = [tpc EXCEPT ![t] = "done"]
    /\ UNCHANGED <<proc, mainVars, sigVars, connVars, workerVars, timer_armed, nticks,
                   fileVars, mutex_destroyed, faults, input_left, hist, rxVars,
                   sbVars>>

\* ------------------------------------------------------ signal_handler
\* SIGINT or SIGTERM: syslog(LOG_INFO, "Caught signal, exiting");
\* caught_signal = 1; shutdown(server_fd, SHUT_RDWR) when server_fd != -1.
Signal ==
    /\ Running
    /\ sig_logged' = TRUE
    /\ caught_signal' = 1
    /\ listen_shut' = IF server_fd # -1 THEN TRUE ELSE listen_shut
    /\ UNCHANGED <<proc, mainVars, connVars, workerVars, timerVars, fileVars,
                   mutexVars, faults, input_left, hist, rxVars, sbVars>>

\* ---------------------------------------------------------------- main
\* listen(server_fd, 10); on -1: cleanup_and_exit(); return -1
M_Listen ==
    /\ Running /\ mpc = "listen"
    /\ mpc' \in {"loop", "c_timer"}
    /\ UNCHANGED thread_list_mutex
    /\ UNCHANGED <<proc, ri, server_fd, naccepted, thread_list, sigVars, connVars,
                   workerVars, timerVars, fileVars, mutexVars, faults, input_left,
                   hist, rxVars, sbVars>>

\* while (!caught_signal)
M_Loop ==
    /\ Running /\ mpc = "loop"
    /\ mpc' = IF caught_signal = 1 THEN "c_timer" ELSE "accept"
    /\ UNCHANGED thread_list_mutex
    /\ UNCHANGED <<proc, ri, server_fd, naccepted, thread_list, sigVars, connVars,
                   workerVars, timerVars, fileVars, mutexVars, faults, input_left,
                   hist, rxVars, sbVars>>

\* accept returns a descriptor, thread_data is allocated and filled in, and
\* pthread_create starts handle_client on it.
M_Accept ==
    /\ Running /\ mpc = "accept" /\ ~listen_shut /\ naccepted < MaxConn
    /\ \E s \in Scripts :
         /\ Len(s) <= input_left
         /\ input_left' = input_left - Len(s)
         /\ script' = [script EXCEPT ![naccepted + 1] = s]
    /\ naccepted' = naccepted + 1
    /\ client_fd' = [client_fd EXCEPT ![naccepted + 1] = "open"]
    /\ pc' = [pc EXCEPT ![naccepted + 1] = "loop"]
    /\ mpc' = "insert"
    /\ UNCHANGED thread_list_mutex
    /\ UNCHANGED <<proc, ri, server_fd, thread_list, sigVars, nrecv,
                   thread_complete, bufVars, streamVars, timerVars, fileVars,
                   mutexVars, faults, hist, rxVars, sbVars>>

\* accept returns a descriptor but malloc or pthread_create fails:
\* close(client_fd); continue
M_AcceptNoThread ==
    /\ Running /\ mpc = "accept" /\ ~listen_shut /\ naccepted < MaxConn
    /\ naccepted' = naccepted + 1
    /\ client_fd' = [client_fd EXCEPT ![naccepted + 1] = "closed"]
    /\ mpc' = "loop"
    /\ UNCHANGED thread_list_mutex
    /\ UNCHANGED <<proc, ri, server_fd, thread_list, sigVars, script, nrecv,
                   workerVars, timerVars, fileVars, mutexVars, faults, input_left,
                   hist, rxVars, sbVars>>

\* accept returns -1 (the listening socket was shut down, or a failure):
\* break when caught_signal, else continue
M_AcceptFail ==
    /\ Running /\ mpc = "accept"
    /\ mpc' = IF caught_signal = 1 THEN "c_timer" ELSE "loop"
    /\ UNCHANGED thread_list_mutex
    /\ UNCHANGED <<proc, ri, server_fd, naccepted, thread_list, sigVars, connVars,
                   workerVars, timerVars, fileVars, mutexVars, faults, input_left,
                   hist, rxVars, sbVars>>

\* SLIST_INSERT_HEAD(&thread_list_head, thread_data, entries), between
\* lock and unlock of thread_list_mutex; then the mutex is locked again and
\* the walk over the list starts at its head.
M_Insert ==
    /\ Running /\ mpc = "insert" /\ thread_list_mutex = 0
    /\ thread_list' = <<naccepted>> \o thread_list
    /\ thread_list_mutex' = MainThread
    /\ ri' = 1
    /\ mpc' = "reap"
    /\ UNCHANGED <<proc, server_fd, naccepted, sigVars, connVars, workerVars,
                   timerVars, fileVars, mutexVars, faults, input_left, hist, rxVars,
                   sbVars>>

\* One step of the walk "Clean up completed threads": an entry that is not
\* complete is passed over; after the last entry the mutex is unlocked and
\* the accept loop goes on.
M_ReapNext ==
    /\ Running /\ mpc = "reap"
    /\ IF ri > Len(thread_list)
       THEN mpc' = "loop" /\ ri' = 1 /\ thread_list_mutex' = 0
       ELSE /\ ~thread_complete[thread_list[ri]]
            /\ ri' = ri + 1
            /\ UNCHANGED <<mpc, thread_list_mutex>>
    /\ UNCHANGED <<proc, server_fd, naccepted, thread_list, sigVars, connVars,
                   workerVars, timerVars, fileVars, mutexVars, faults, input_left,
                   hist, rxVars, sbVars>>

\* SLIST_REMOVE(&thread_list_head, thread_item, thread_data, entries) of the
\* i-th entry of the list.
SlistRemoveHead(list, i) == Tail(list)
SlistRemove(list, i) == SubSeq(list, 1, i - 1) \o Drop(list, i)

\* A complete entry: pthread_join returns once the thread has returned;
\* SLIST_REMOVE; close(thread_item->client_fd); free(thread_item)
M_ReapJoin ==
    /\ Running /\ mpc = "reap" /\ ri <= Len(thread_list)
    /\ thread_complete[thread_list[ri]]
    /\ JoinReturns(thread_list[ri])
    /\ thread_list' = SlistRemove(thread_list, ri)
    /\ client_fd' = [client_fd EXCEPT ![thread_list[ri]] = "closed"]
    /\ UNCHANGED thread_list_mutex
    /\ UNCHANGED <<proc, mpc, ri, server_fd, naccepted, sigVars, script, nrecv,
                   workerVars, timerVars, fileVars, mutexVars, faults, input_left,
                   hist, rxVars, sbVars>>

\* ---------------------------------------------------- cleanup_and_exit
\* timer_delete(timerid); then thread_list_mutex is locked and the walk
\* over the list starts at its head.
C_TimerDelete ==
    /\ Running /\ mpc = "c_timer" /\ thread_list_mutex = 0
    /\ timer_armed' = FALSE
    /\ thread_list_mutex' = MainThread
    /\ ri' = 1
    /\ mpc' = "c_shut"
    /\ UNCHANGED <<proc, server_fd, naccepted, thread_list, sigVars, connVars,
                   workerVars, nticks, tpc, fileVars, mutexVars, faults, input_left,
                   hist, rxVars, sbVars>>

\* One step of SLIST_FOREACH: shutdown(thread_item->client_fd, SHUT_RDWR)
\* when the entry is not complete.  After the last entry the mutex is
\* unlocked, locked again for the test of the join loop, and unlocked before
\* the pthread_join or after the loop.
C_Shutdown ==
    /\ Running /\ mpc = "c_shut"
    /\ IF ri > Len(thread_list)
       THEN /\ mpc' = "c_join"
            /\ ri' = 1
            /\ thread_list_mutex' = 0
            /\ UNCHANGED client_fd
       ELSE /\ client_fd' = [client_fd EXCEPT ![thread_list[ri]] =
                  IF thread_complete[thread_list[ri]] THEN @ ELSE "shut"]
            /\ ri' = ri + 1
            /\ UNCHANGED <<mpc, thread_list_mutex>>
    /\ UNCHANGED <<proc, server_fd, naccepted, thread_list, sigVars, script, nrecv,
                   workerVars, timerVars, fileVars, mutexVars, faults,
                   input_left, hist, rxVars, sbVars>>

\* pthread_join(SLIST_FIRST->thread_id), called with thread_list_mutex
\* unlocked, returns once that thread has returned; then, between lock and
\* unlock: SLIST_REMOVE_HEAD; close(thread_item->client_fd); free
C_Join ==
    /\ Running /\ mpc = "c_join" /\ thread_list # <<>> /\ thread_list_mutex = 0
    /\ JoinReturns(Head(thread_list))
    /\ thread_list' = Tail(thread_list)
    /\ client_fd' = [client_fd EXCEPT ![Head(thread_list)] = "closed"]
    /\ UNCHANGED thread_list_mutex
    /\ UNCHANGED <<proc, mpc, ri, server_fd, naccepted, sigVars, script, nrecv,
                   workerVars, timerVars, fileVars, mutexVars, faults, input_left,
                   hist, rxVars, sbVars>>

\* The list is empty: close(server_fd); server_fd = -1;
C_CloseListener ==
    /\ Running /\ mpc = "c_join" /\ thread_list = <<>>
    /\ server_fd' = -1
    /\ mpc' = "c_unlink"
    /\ UNCHANGED thread_list_mutex
    /\ UNCHANGED <<proc, ri, naccepted, thread_list, sigVars, connVars, workerVars,
                   timerVars, fileVars, mutexVars, faults, input_left, hist, rxVars,
                   sbVars>>

\* unlink(DATA_FILE);
C_Unlink ==
    /\ Running /\ mpc = "c_unlink"
    /\ file_exists' = FALSE
    /\ log' = <<>>
    /\ mpc' = "c_destroy"
    /\ UNCHANGED thread_list_mutex
    /\ UNCHANGED <<wrote, proc, ri, server_fd, naccepted, thread_list, sigVars, connVars,
                   workerVars, timerVars, mutexVars, faults, input_left, hist,
                   rxVars, sbVars>>

\* pthread_mutex_destroy(&file_mutex); pthread_mutex_destroy(&thread_list_mutex);
\* Destroying file_mutex while a thread holds it is undefined: the call may
\* fail with EBUSY and leave the mutex as it is.
C_Destroy ==
    /\ Running /\ mpc = "c_destroy"
    /\ mutex_destroyed' \in (IF file_mutex = 0 THEN {TRUE} ELSE {TRUE, FALSE})
    /\ mpc' = "c_return"
    /\ UNCHANGED thread_list_mutex
    /\ UNCHANGED <<proc, ri, server_fd, naccepted, thread_list, sigVars, connVars,
                   workerVars, timerVars, fileVars, file_mutex, faults, input_left,
                   hist, rxVars, sbVars>>

\* closelog(); and main returns: the process exits, and with it every thread.
C_Return ==
    /\ Running /\ mpc = "c_return"
    /\ proc' = "exited"
    /\ mpc' = "returned"
    /\ UNCHANGED thread_list_mutex
    /\ UNCHANGED <<ri, server_fd, naccepted, thread_list, sigVars, connVars,
                   workerVars, timerVars, fileVars, mutexVars, faults, input_left,
                   hist, rxVars, sbVars>>

\* ---------------------------------------------------------------- spec
WorkerStep(w) ==
    \/ W_Check(w) \/ W_RecvData(w) \/ W_RecvNoMem(w) \/ W_RecvEnd(w)
    \/ W_LockA(w) \/ W_Append(w) \/ W_Write(w) \/ W_WriteFail(w) \/ W_UnlockA(w)
    \/ W_LockR(w) \/ W_OpenR(w) \/ W_Send(w) \/ W_SendFail(w) \/ W_SendPipe(w)
    \/ W_UnlockR(w) \/ W_Complete(w) \/ W_Return(w)

TimerStep(t) ==
    \/ T_Lock(t) \/ T_Append(t) \/ T_Write(t) \/ T_WriteFail(t) \/ T_Unlock(t)

MainStep ==
    \/ M_Listen \/ M_Loop \/ M_Accept \/ M_AcceptNoThread \/ M_AcceptFail
    \/ M_Insert \/ M_ReapNext \/ M_ReapJoin
    \/ C_TimerDelete \/ C_Shutdown \/ C_Join \/ C_CloseListener \/ C_Unlink
    \/ C_Destroy \/ C_Return

Next ==
    \/ MainStep
    \/ \E w \in Workers : WorkerStep(w)
    \/ \E t \in Timers : TimerStep(t)
    \/ Tick
    \/ Signal

Spec == Init /\ [][Next]_vars

\* What the scheduler and the kernel guarantee.  main, a client thread and a
\* timer_handler thread each go on when they can, except where they wait
\* for a peer: accept returns for certain only once the listening socket
\* was shut down, and recv and send only once the connection's descriptor
\* was.
MainProgress ==
    \/ MainStep /\ mpc # "accept"
    \/ M_AcceptFail /\ listen_shut

WorkerProgress(w) ==
    \/ WorkerStep(w) /\ pc[w] \notin {"recv", "send"}
    \/ W_RecvEnd(w) /\ client_fd[w] = "shut"
    \/ (W_SendFail(w) \/ W_SendPipe(w)) /\ client_fd[w] = "shut"

Fairness ==
    /\ WF_vars(MainProgress)
    /\ \A w \in Workers : WF_vars(WorkerProgress(w))
    /\ \A t \in Timers : WF_vars(TimerStep(t))

FairSpec == Spec /\ Fairness

\* ------------------------------------------------------------ properties
\* The bytes the i-th append (in completion order) put in the file, and
\* whether it put the whole record there.
Written(i) == SubSeq(hist[i].rec, 1, hist[i].n)
Completed(i) == hist[i].n = Len(hist[i].rec)

\* What the first k appends put in the file, one after the other.
RECURSIVE CatWritten(_)
CatWritten(k) == IF k = 0 THEN <<>> ELSE CatWritten(k - 1) \o Written(k)

\* A whole record: bytes without a newline, then one newline.
IsRecord(s) ==
    /\ Len(s) >= 1
    /\ s[Len(s)] = NL
    /\ \A i \in 1..(Len(s) - 1) : s[i] # NL

\* The appends a stream-back that delivered s has covered.
Covers(s, k) == k \in 0..Len(hist) /\ s = CatWritten(k)

C2_AppendOrderTotalAndStable ==
    \A w \in Workers :
        /\ sb_upto[w] <= Len(hist)
        /\ IsPrefix(sb[w], CatWritten(sb_upto[w]))
        /\ sb_ok[w] => /\ sb[w] = CatWritten(sb_upto[w])
                       /\ IsPrefix(sb[w], last_sb)

\* Two stream-backs returned 0, the later with one more record than the
\* earlier.
C2_Witness ==
    \E v, w \in Workers :
        /\ sb_ok[v] /\ sb_ok[w]
        /\ sb_upto[v] = 1 /\ sb_upto[w] = 2
        /\ Completed(1) /\ Completed(2)
        /\ last_sb = sb[w]
        /\ Len(sb[v]) < Len(sb[w])

\* The run of bytes that the i-th append has in a stream-back that delivered s.
RunOf(s, i) ==
    SubSeq(s, Len(CatWritten(i - 1)) + 1, Min(Len(s), Len(CatWritten(i))))

\* C3: a stream-back that returned 0 covers the append its worker made just
\* before it, and when that append put its whole record r in the file, r is
\* in the stream-back at that append's place, whatever other appends landed
\* before or after it.
C3_OwnRecordStreamedBack ==
    \A w \in Workers :
        sb_ok[w] =>
            \E i \in 1..sb_upto[w] :
                /\ hist[i].by = w
                /\ \A j \in (i + 1)..sb_upto[w] : hist[j].by # w
                /\ Completed(i) => /\ IsRecord(hist[i].rec)
                                   /\ RunOf(sb[w], i) = hist[i].rec

\* A worker's stream-back returned 0 with a timestamp that landed between
\* the worker's append and its stream-back.
C3_Witness ==
    \E w \in Workers :
        /\ sb_ok[w]
        /\ sb_upto[w] = 2
        /\ hist[1].by = w /\ Completed(1)
        /\ hist[2].by \in Timers /\ Completed(2)
        /\ RunOf(sb[w], 1) = hist[1].rec

\* The newlines of s, the end of its i-th record, and its first i records.
CountNL(s) == Cardinality({ p \in 1..Len(s) : s[p] = NL })
EndOfRecord(s, i) ==
    CHOOSE p \in 1..Len(s) :
        s[p] = NL /\ Cardinality({ q \in 1..p : s[q] = NL }) = i
FirstRecords(s, i) == IF i = 0 THEN <<>> ELSE SubSeq(s, 1, EndOfRecord(s, i))

\* The appends worker w has made since its last recv, oldest first, and the
\* records they carried laid end to end.
OwnSince(w) ==
    SelectSeq(SubSeq(hist, rx_base[w] + 1, Len(hist)), LAMBDA e : e.by = w)
RECURSIVE CatRecs(_)
CatRecs(es) == IF es = <<>> THEN <<>> ELSE Head(es).rec \o CatRecs(Tail(es))

\* C6: after a recv has left k >= 0 complete records in the buffer, the
\* worker's appends since then carry the first records of the buffer in
\* arrival order, one whole record each; the buffer holds what is not yet
\* appended and streamed back; the stream-back that follows the i-th append
\* delivers, when no other thread appended in between and the i appends put
\* their records in the file, what the file held before followed by exactly
\* the first i records; and once the worker is back at recv, all k records
\* were appended and the unterminated remainder is what the buffer holds.
C6_RecordsOfOneReadInOrder ==
    \A w \in Workers :
        rx[w] # <<>> =>
            LET own == OwnSince(w)
                done == CatRecs(own)
                i == sb_upto[w] - rx_base[w]
            IN  /\ IsPrefix(done, rx[w])
                /\ \A j \in 1..Len(own) : IsRecord(own[j].rec)
                /\ pc[w] \in {"lock_a", "append", "write"} =>
                       buffer[w] = Drop(rx[w], Len(done))
                /\ pc[w] \in {"unlock_a", "lock_r", "open_r", "send", "unlock_r"} =>
                       /\ own # <<>>
                       /\ buffer[w] = Drop(rx[w], Len(done) - Len(own[Len(own)].rec))
                /\ pc[w] \in {"loop", "recv"} =>
                       /\ Len(own) = CountNL(rx[w])
                       /\ buffer[w] = Drop(rx[w], Len(done))
                       /\ ~HasNewline(buffer[w])
                /\ ( /\ sb_ok[w]
                     /\ \A j \in (rx_base[w] + 1)..sb_upto[w] :
                            hist[j].by = w /\ Completed(j) ) =>
                       /\ i \in 1..CountNL(rx[w])
                       /\ sb[w] = CatWritten(rx_base[w]) \o FirstRecords(rx[w], i)

\* One recv left two records in the buffer, both were appended, and the
\* second stream-back returned 0 having delivered the two.
C6_Witness ==
    \E w \in Workers :
        /\ CountNL(rx[w]) = 2
        /\ Len(OwnSince(w)) = 2
        /\ sb_ok[w] /\ sb_upto[w] = rx_base[w] + 2
        /\ sb[w] = rx[w]
        /\ buffer[w] = <<>>

\* C7: the bytes that a client sends without a newline after them are in no
\* record handed to an append, not in the file and in no stream-back.
C7_UnterminatedNeverAppended ==
    \A b \in Bytes(Unterminated) :
        /\ b \notin Bytes(log)
        /\ \A i \in 1..Len(hist) : b \notin Bytes(hist[i].rec)
        /\ \A w \in Workers : b \notin Bytes(sb[w])
        /\ b \notin Bytes(last_sb)

\* A connection ended after recv had returned a record and the unterminated
\* bytes behind it; the record is in the file.
C7_Witness ==
    \E w \in Workers :
        /\ pc[w] = "done"
        /\ script[w] = <<97, NL>> \o Unterminated
        /\ nrecv[w] = Len(script[w])
        /\ file_exists /\ log = <<97, NL>>
        /\ last_sb = log

\* unlink(DATA_FILE) has run.
Purged == mpc \in {"c_destroy", "c_return", "returned"}

\* The whole records of s that equal r.
Copies(s, r) ==
    Cardinality({ p \in 1..(Len(s) - Len(r) + 1) :
                    /\ SubSeq(s, p, p + Len(r) - 1) = r
                    /\ (p = 1 \/ s[p - 1] = NL) })

\* C8: when every one of the N clients sends the same record once, no append
\* has failed and every worker has finished its append, the file (until it
\* is unlinked) holds exactly N copies of the record.
C8_ExactlyNCopies ==
    \A r \in Scripts :
        ( /\ \A w \in Workers : script[w] = r /\ \E i \in 1..Len(hist) : hist[i].by = w
          /\ IsRecord(r)
          /\ faults = 0
          /\ ~Purged ) =>
            Copies(log, r) = Cardinality(Workers)

\* Both workers were waiting for the mutex with their record at the same
\* time before both appended it, the later connection first.
C8_Witness ==
    /\ \A w \in Workers : script[w] = <<97, NL>>
    /\ Len(hist) = Cardinality(Workers) /\ \A i \in 1..Len(hist) : Completed(i)
    /\ hist[1].by = 2
    /\ faults = 0 /\ ~Purged
    /\ log = <<97, NL, 97, NL>>

\* C4: once main has returned from cleanup_and_exit, DATA_FILE does not
\* exist.
C4_LogAbsentAfterCleanExit == proc = "exited" => ~file_exists

\* A client thread has returned and main has taken it off the list and
\* closed its descriptor.
Joined(w) == pc[w] = "done" /\ client_fd[w] = "closed"

\* C5: once the signal is caught while main is in its accept loop, main
\* leaves the loop, every client thread returns and is joined, and main
\* returns from cleanup_and_exit: the process exits.
C5_ShutdownCompletes ==
    (caught_signal = 1 /\ mpc \in {"loop", "accept", "insert", "reap"})
        ~> ( /\ proc = "exited"
             /\ thread_list = <<>>
             /\ \A w \in Workers : pc[w] # "none" => Joined(w) )

\* A thread is between its fopen of DATA_FILE and the fclose.
HasLogOpen(t) ==
    IF t \in Workers THEN pc[t] \in {"write", "send", "unlock_r"}
    ELSE tpc[t] = "write"

\* A thread is between its pthread_mutex_lock(&file_mutex) and the unlock.
InCritical(t) ==
    IF t \in Workers
    THEN pc[t] \in {"append", "write", "unlock_a", "open_r", "send", "unlock_r"}
    ELSE tpc[t] \in {"append", "write", "unlock"}

\* C9: at most one thread has DATA_FILE open, and a thread that opens, reads
\* or appends to it holds file_mutex from before the fopen until after the
\* fclose.
C9_LogOnlyUnderMutex ==
    /\ \A t \in Threads : InCritical(t) => file_mutex = t
    /\ \A t, u \in Threads : HasLogOpen(t) /\ HasLogOpen(u) => t = u

\* C10: once timer_delete has returned, no timer_handler thread takes a
\* step: none locks or unlocks file_mutex, and none opens or appends to
\* DATA_FILE.
C10_TimerStopsBeforeDrain ==
    [][~timer_armed => \A t \in Timers : tpc'[t] = tpc[t]]_vars

\* C11: a step that changes a client thread's thread_complete is taken by
\* that thread while it holds thread_list_mutex, nothing follows it in the
\* thread but the return, and main looks at the flags only while it holds
\* the mutex.
C11_FlagSetUnderListMutex ==
    [][ /\ \A w \in Workers :
              thread_complete'[w] # thread_complete[w] =>
                  /\ thread_list_mutex = w
                  /\ pc[w] = "exit" /\ pc'[w] = "ret"
        /\ mpc \in {"reap", "c_shut"} => thread_list_mutex = MainThread ]_vars

\* The client thread has an entry in the list.
InList(w) == \E i \in 1..Len(thread_list) : thread_list[i] = w

\* C12: every client thread that was created and is not yet joined has an
\* entry in the list, and an entry leaves the list only in a step of main,
\* in the reap walk or in the join loop of cleanup_and_exit, that joins its
\* thread, which has returned.
C12_SpawnedWorkersAreListed ==
    [][ /\ \A w \in Workers : pc[w] # "none" /\ ~Joined(w) => InList(w)
        /\ \A w \in Workers :
              InList(w) /\ ~InList(w)' =>
                  /\ mpc \in {"reap", "c_join"}
                  /\ pc[w] = "done"
                  /\ Joined(w)' ]_vars

\* The step of main that runs unlink(DATA_FILE).
PurgeStep == mpc = "c_unlink" /\ mpc' = "c_destroy"

\* C13: DATA_FILE is removed, or loses bytes, only in main's unlink step;
\* that step is taken with the list empty and every client thread that was
\* created joined; and after it main never comes back to it and no client
\* thread takes a step, so none appends to the file or reads it.
C13_PurgeOnceAfterAllJoined ==
    [][ /\ (file_exists /\ ~file_exists') \/ ~IsPrefix(log, log') => PurgeStep
        /\ PurgeStep =>
              /\ ~Purged
              /\ thread_list = <<>>
              /\ \A w \in Workers : pc[w] = "none" \/ Joined(w)
        /\ Purged =>
              /\ Purged'
              /\ pc' = pc
              /\ \A w \in Workers : ~InCritical(w) ]_vars

\* The file was unlinked with a record in it whose worker had been joined.
C13_Witness ==
    /\ Purged
    /\ ~file_exists
    /\ \E w \in Workers :
          /\ Joined(w)
          /\ \E i \in 1..Len(hist) : hist[i].by = w /\ Completed(i)

\* C14: a step that is signal_handler's (no other step changes what it
\* changes) sets caught_signal, shuts the listening socket down, and leaves
\* everything else as it is: it does not call syslog, and it does not touch
\* the list, the file or either mutex.
C14_HandlerSetsFlagAndShutsListener ==
    [][ (caught_signal' # caught_signal \/ listen_shut' # listen_shut
                                         \/ sig_logged' # sig_logged) =>
            /\ caught_signal' = 1
            /\ listen_shut' = (listen_shut \/ server_fd # -1)
            /\ UNCHANGED <<sig_logged, proc, mainVars, connVars, workerVars,
                           timerVars, fileVars, mutexVars, faults, input_left,
                           hist, rxVars, sbVars>> ]_vars


\* The append of hist[i] failed: fopen returned NULL, or a write failed.
FailedAppend(i) == hist[i].n < Len(hist[i].rec)

\* C15: when a client thread's append of a record fails (the file cannot be
\* opened, or a write fails), nothing of that record is in the file; the
\* thread releases file_mutex and goes on to the stream-back.
C15_FailedAppendLeavesNothing ==
    /\ \A i \in 1..Len(hist) :
          hist[i].by \in Workers /\ FailedAppend(i) => Written(i) = <<>>
    /\ \A w \in Workers : pc[w] = "unlock_a" => file_mutex = w
    /\ \A w \in Workers : pc[w] = "lock_r" => file_mutex # w


\* The number of appends thread t has ended among the first k of the history h.
RECURSIVE AppendsBy(_, _, _)
AppendsBy(t, h, k) ==
    IF k = 0 THEN 0
    ELSE AppendsBy(t, h, k - 1) + (IF h[k].by = t THEN 1 ELSE 0)

\* send_file_to_client returns -1 to thread w in this step.
StreamBackFails(w) ==
    /\ pc[w] \in {"open_r", "send"}
    /\ pc'[w] \notin {"open_r", "send", "unlock_r"}

\* C16: when a stream-back fails (fopen for reading returns NULL, or send
\* fails), the client thread ends there and nothing else does: file_mutex is
\* released and the buffer freed in that step, the thread then sets
\* thread_complete and returns without another append, and the process, the
\* other client threads, the timer threads and main are left as they were.
C16_StreamBackFailureEndsWorkerOnly ==
    [][ \A w \in Workers :
          /\ pc[w] = "send" => proc' = proc
          /\ StreamBackFails(w) =>
                /\ pc'[w] = "exit"
                /\ file_mutex = w /\ file_mutex' = 0
                /\ buffer'[w] = <<>> /\ buffer_size'[w] = 0
                /\ \A v \in Workers \ {w} : pc'[v] = pc[v]
                /\ UNCHANGED <<mainVars, sigVars, timerVars, fileVars, hist>>
          /\ pc[w] \in {"exit", "ret", "done"} =>
                /\ pc'[w] \in {"exit", "ret", "done"}
                /\ pc'[w] # "exit" => thread_complete'[w]
                /\ AppendsBy(w, hist', Len(hist')) = AppendsBy(w, hist, Len(hist)) ]_vars


\* main is in the walk "Clean up completed threads" with thread_item on an
\* entry of the list.
Scanning == mpc = "reap" /\ ri <= Len(thread_list)

\* C17: the walk over the list that follows every insertion takes the entries
\* in turn: an entry whose thread_complete is set when the walk looks at it is
\* joined, removed and its descriptor closed, in that step and only then; an
\* entry whose flag is not set is passed over, stays in the list and keeps its
\* descriptor open; the walk ends only after the last entry, leaving the
\* entries it passed over.
C17_ReapTakesExactlyCompleted ==
    [][ /\ mpc = "insert" /\ mpc' # mpc => mpc' = "reap" /\ ri' = 1
        /\ mpc = "reap" =>
              /\ \A i \in 1..Len(thread_list) : client_fd[thread_list[i]] = "open"
              /\ mpc' # mpc => mpc' = "loop" /\ ri > Len(thread_list)
                               /\ thread_list' = thread_list
              /\ <<ri, thread_list>>' # <<ri, thread_list>> /\ mpc' = mpc =>
                    /\ Scanning
                    /\ IF thread_complete[thread_list[ri]]
                       THEN /\ pc[thread_list[ri]] = "done"
                            /\ thread_list' = SubSeq(thread_list, 1, ri - 1)
                                                \o Drop(thread_list, ri)
                            /\ client_fd' = [client_fd EXCEPT
                                               ![thread_list[ri]] = "closed"]
                            /\ ri' = ri
                       ELSE /\ thread_list' = thread_list
                            /\ client_fd' = client_fd
                            /\ ri' = ri + 1 ]_vars

\* The walk passed over the entry of thread 2, which is not complete, and
\* then joined and removed the entry of thread 1 behind it.
C17_Witness ==
    /\ mpc = "reap" /\ ri = 2 /\ thread_list = <<2>>
    /\ ~thread_complete[2] /\ client_fd[2] = "open"
    /\ Joined(1)


\* close(client_fd) is called on the descriptor of connection w in this step.
Closes(w) == client_fd[w] # "closed" /\ client_fd'[w] = "closed"

\* C18: the descriptor of an accepted connection is closed once: a closed
\* descriptor is never closed again, and main's joins close only entries that
\* are in the list with their descriptor not yet closed; when a thread was
\* created for the connection, the close comes after that thread has
\* returned and been joined.  When main has returned from cleanup_and_exit
\* the list is empty and no accepted descriptor is open.
C18_TransportClosedOnceAfterJoin ==
    [][ /\ \A w \in Workers :
              /\ client_fd[w] = "closed" =>
                    /\ client_fd'[w] = "closed"
                    /\ ~InList(w) /\ ~InList(w)'
              /\ Closes(w) =>
                    \/ client_fd[w] = "none" /\ pc[w] = "none" /\ pc'[w] = "none"
                    \/ InList(w) /\ ~InList(w)' /\ pc[w] = "done"
        /\ proc' = "exited" =>
              /\ thread_list' = <<>>
              /\ \A w \in Workers : client_fd'[w] \in {"none", "closed"} ]_vars

\* main has returned after two connections: for one no thread was created
\* and its descriptor was closed at once, the other's thread was joined and
\* its descriptor closed then.
C18_Witness ==
    /\ proc = "exited" /\ thread_list = <<>>
    /\ \E w \in Workers : pc[w] = "done" /\ client_fd[w] = "closed"
    /\ \E w \in Workers : pc[w] = "none" /\ client_fd[w] = "closed"


\* main is in pthread_join for the thread of connection w: in the reap walk
\* on an entry whose flag is set, or in the join loop of cleanup_and_exit on
\* the head of the list.
JoinPending(w) ==
    \/ Scanning /\ thread_list[ri] = w /\ thread_complete[w]
    \/ mpc = "c_join" /\ thread_list # <<>> /\ Head(thread_list) = w

\* A thread that has not returned waits for thread_list_mutex, for
\* file_mutex, or in pthread_join.
MainBlocked ==
    \/ mpc \in {"insert", "c_timer"} /\ thread_list_mutex # 0
    \/ \E w \in Workers : JoinPending(w) /\ ~JoinReturns(w)

WorkerBlocked(w) == pc[w] \in {"lock_a", "lock_r"} /\ ~LockGranted(w)

TimerBlocked(t) == tpc[t] = "lock" /\ ~LockGranted(t) /\ ~mutex_destroyed

AllBlocked ==
    /\ MainBlocked
    /\ \A w \in Workers : pc[w] \notin {"none", "done"} => WorkerBlocked(w)
    /\ \A t \in Timers : tpc[t] # "none" => TimerBlocked(t)

\* C19: while the process runs there is no state in which main and every
\* thread that has not returned wait for thread_list_mutex, file_mutex or a
\* join; and every pthread_join main calls, in the reap walk and in the join
\* loop of cleanup_and_exit, returns: the thread is joined.
C19_NoDeadlockJoinsReturn ==
    /\ [](Running /\ mpc # "returned" => ~AllBlocked)
    /\ \A w \in Workers : JoinPending(w) ~> Joined(w)


\* bytes_received of the recv that returned to thread w in this step.
Received(w) == nrecv'[w] - nrecv[w]

\* C20: in every client thread buffer_used never exceeds buffer_size; the
\* bytes of a recv are copied in only when they fit; buffer_size changes in a
\* recv only, by exactly BUFFER_SIZE and exactly when the bytes would not fit
\* otherwise; removing a packet takes packet_size <= buffer_used bytes off;
\* and when realloc fails, as on every way out of the thread, the buffer is
\* freed.
C20_BufferWithinCapacity ==
    [][ \A w \in Workers :
          /\ Len(buffer[w]) <= buffer_size[w]
          /\ Len(buffer'[w]) <= buffer_size'[w]
          /\ Received(w) > 0 /\ pc'[w] # "exit" =>
                /\ Received(w) <= BUFFER_SIZE
                /\ Len(buffer'[w]) = Len(buffer[w]) + Received(w)
                /\ buffer_size'[w] = IF Len(buffer[w]) + Received(w) > buffer_size[w]
                                     THEN buffer_size[w] + BUFFER_SIZE
                                     ELSE buffer_size[w]
          /\ Received(w) = 0 /\ pc'[w] # "exit" /\ pc[w] # "none" =>
                /\ buffer_size'[w] = buffer_size[w]
                /\ \/ buffer'[w] = buffer[w]
                   \/ /\ pc[w] = "unlock_r"
                      /\ PacketSize(buffer[w]) <= Len(buffer[w])
                      /\ Len(buffer'[w]) = Len(buffer[w]) - PacketSize(buffer[w])
          /\ pc'[w] \in {"exit", "ret", "done"} =>
                buffer'[w] = <<>> /\ buffer_size'[w] = 0 ]_vars

\* A thread's buffer was grown a second time: it holds more than BUFFER_SIZE
\* bytes, received in more than one recv.
C20_Witness ==
    \E w \in Workers :
        /\ buffer_size[w] = 2 * BUFFER_SIZE
        /\ Len(buffer[w]) > BUFFER_SIZE
        /\ pc[w] = "lock_a"

====
